---- MODULE Spec2Model ----
(***************************************************************************)
(* Theme resolution and synchronisation engine of Spyder:                  *)
(*   spyder/utils/theme_manager.py  (ThemeManager)                         *)
(*   spyder/utils/palette.py        (lazy SpyderPalette)                   *)
(* Strings that the code builds or takes apart ("<theme>/<mode>/<key>")    *)
(* are sequences of their '/'-separated segments, so that formatting an    *)
(* option name and rsplit('/', 1) are computed, not assumed.               *)
(***************************************************************************)
EXTENDS Integers, Sequences, FiniteSets, TLC

VARIABLES
    env,                    \* installed theme packages (the import system and the files)
    dark_interface,         \* what spyder.config.base.is_dark_interface() answers
    conf_ready,             \* what spyder.config.base._is_conf_ready() answers
    tm,                     \* the ThemeManager instance theme_manager
    conf,                   \* section 'appearance' of CONF: option -> value
    theme_palette,          \* palette._theme_palette
    theme_palette_loaded,   \* palette._theme_palette_loaded
    calls,                  \* number of calls made so far
    page,                   \* the AppearanceConfigPage: its combobox, dictionary and buttons
    last                    \* record of the last call: arguments, outcome, state before it

vars == <<env, dark_interface, conf_ready, tm, conf, theme_palette,
          theme_palette_loaded, calls, page, last>>

\* ------------------------------------------------------------------------
\* Bounds
\* ------------------------------------------------------------------------
MaxCalls == 2
\* Operations on the preferences page, and custom schemes kept at a time
MaxPageOps == 6
MaxCustom == 3

\* ------------------------------------------------------------------------
\* Names
\* ------------------------------------------------------------------------
None == "None"
DefaultTheme == "spyder_themes.spyder"
Solarized == "spyder_themes.solarized"
Nonexistent == "nonexistent"

\* theme_packages = ['spyder_themes']
theme_packages == <<"spyder_themes">>

\* package.THEMES of spyder_themes, in registration order
THEMES == <<"spyder", "solarized">>

\* f"{package_name}.{theme_name}"
ModulePath(package_name, theme_name) ==
    IF package_name = "spyder_themes" /\ theme_name = "spyder" THEN DefaultTheme
    ELSE IF package_name = "spyder_themes" /\ theme_name = "solarized" THEN Solarized
    ELSE Nonexistent

\* Python's order on the strings that are sorted
StrRank(s) ==
    CASE s = "dark" -> 1
      [] s = "light" -> 2
      [] s = Nonexistent -> 3
      [] s = Solarized -> 4
      [] s = DefaultTheme -> 5
      [] OTHER -> 6

UiModes == {"dark", "light"}

\* The colour-scheme keys and the palette attribute each is read from,
\* in the order of the dict literal.
SchemeMap == <<
    <<"background", "EDITOR_BACKGROUND">>,
    <<"currentline", "EDITOR_CURRENTLINE">>,
    <<"currentcell", "EDITOR_CURRENTCELL">>,
    <<"occurrence", "EDITOR_OCCURRENCE">>,
    <<"ctrlclick", "EDITOR_CTRLCLICK">>,
    <<"sideareas", "EDITOR_SIDEAREAS">>,
    <<"matched_p", "EDITOR_MATCHED_P">>,
    <<"unmatched_p", "EDITOR_UNMATCHED_P">>,
    <<"normal", "EDITOR_NORMAL">>,
    <<"keyword", "EDITOR_KEYWORD">>,
    <<"builtin", "EDITOR_BUILTIN">>,
    <<"definition", "EDITOR_DEFINITION">>,
    <<"comment", "EDITOR_COMMENT">>,
    <<"string", "EDITOR_STRING">>,
    <<"number", "EDITOR_NUMBER">>,
    <<"instance", "EDITOR_INSTANCE">>,
    <<"magic", "EDITOR_MAGIC">> >>

SchemeKeySeq == [i \in 1..Len(SchemeMap) |-> SchemeMap[i][1]]
SchemeKeys == {SchemeMap[i][1] : i \in 1..Len(SchemeMap)}
EditorAttrs == {SchemeMap[i][2] : i \in 1..Len(SchemeMap)}
AttrOf(key) == (CHOOSE i \in 1..Len(SchemeMap) : SchemeMap[i][1] = key)
AttrName(key) == SchemeMap[AttrOf(key)][2]

\* syntaxhighlighters.COLOR_SCHEME_KEYS
COLOR_SCHEME_KEYS == SchemeKeySeq

\* ------------------------------------------------------------------------
\* Installed themes
\* ------------------------------------------------------------------------
\* One theme module as the import system and the file system present it.
ThemeShape(reg, getmod, imp, tid, classes, missing, qss, rc) ==
    [registered |-> reg,      \* listed in package.THEMES
     get_module |-> getmod,   \* outcome of package.get_theme_module(name)
     import |-> imp,          \* outcome of importlib.import_module(path)
     theme_id |-> tid,        \* hasattr(module, 'THEME_ID')
     classes |-> classes,     \* modes whose SpyderPalette<Mode> class exists
     missing |-> missing,     \* <<mode, attr>> pairs the palette class lacks
     qss |-> qss,             \* modes whose <mode>style.qss file exists
     rc |-> rc]               \* modes whose pyqt5_<mode>style_rc.py exists

Full == ThemeShape(TRUE, "ok", "ok", TRUE, {"dark", "light"}, {}, {"dark", "light"}, {"dark"})
DarkOnly == ThemeShape(TRUE, "ok", "ok", TRUE, {"dark"}, {}, {"dark"}, {})
NoLightQss == ThemeShape(TRUE, "ok", "ok", TRUE, {"dark", "light"}, {}, {"dark"}, {"dark"})
NoDarkQss == ThemeShape(TRUE, "ok", "ok", TRUE, {"dark", "light"}, {}, {"light"}, {})
IncompleteLight == ThemeShape(TRUE, "ok", "ok", TRUE, {"dark", "light"},
                              {<<"light", "EDITOR_COMMENT">>}, {"dark", "light"}, {"light"})
IncompleteDark == ThemeShape(TRUE, "ok", "ok", TRUE, {"dark", "light"},
                             {<<"dark", "EDITOR_MAGIC">>}, {"dark", "light"}, {})
NotInstalled == ThemeShape(FALSE, "ImportError", "ImportError", FALSE, {}, {}, {}, {})
Unimportable == ThemeShape(TRUE, "ok", "ImportError", TRUE, {"dark"}, {}, {"dark"}, {})
Corrupt == ThemeShape(TRUE, "SyntaxError", "SyntaxError", FALSE, {}, {}, {}, {})
CorruptOnImport == ThemeShape(TRUE, "ok", "SyntaxError", TRUE, {"dark"}, {}, {"dark"}, {})
NoPalettes == ThemeShape(TRUE, "ok", "ok", TRUE, {}, {}, {"dark"}, {})

DefaultShapes == {Full, DarkOnly, NoDarkQss, IncompleteDark, NotInstalled}
OtherShapes == {Full, DarkOnly, NoLightQss, IncompleteLight, NotInstalled,
                Unimportable, Corrupt, CorruptOnImport, NoPalettes}

InstalledThemes == {DefaultTheme, Solarized}

\* ------------------------------------------------------------------------
\* Palette classes, stylesheets, resource files
\* ------------------------------------------------------------------------
NoPalette == [theme |-> None, cls |-> None, attrs |-> {}]
NoStylesheet == <<None>>

ClassOfMode(mode) == IF mode = "dark" THEN "SpyderPaletteDark" ELSE "SpyderPaletteLight"

\* theme_module.SpyderPaletteDark / SpyderPaletteLight of an importable theme
PaletteClass(theme, mode) ==
    [theme |-> theme, cls |-> ClassOfMode(mode),
     attrs |-> {a \in EditorAttrs : <<mode, a>> \notin env[theme].missing}]

\* The colour a palette class holds in one attribute; every attribute of
\* every palette has its own colour.
PaletteValue(palette, attr) ==
    IF palette.theme = Solarized /\ palette.cls = "SpyderPaletteDark"
       /\ attr = "EDITOR_BACKGROUND"
    THEN <<"#002B36">>
    ELSE <<palette.theme, palette.cls, attr>>

\* ------------------------------------------------------------------------
\* The configuration store (spyder.config.manager.CONF, section 'appearance')
\* ------------------------------------------------------------------------
\* A call state: the manager, the store, the options written so far, the
\* style files read or executed so far, the options CONF.set was called
\* with and the options the palette resolution read.
CallState(m, c, w) ==
    [tm |-> m, conf |-> c, writes |-> w, loads |-> <<>>, set_calls |-> {}, reads |-> {}]

SelectedOption == <<"selected">>
NamesOption == <<"names">>

\* f"{theme_name}/{ui_mode}"
VariantName(theme_name, ui_mode) == <<theme_name, ui_mode>>
\* f"{variant_name}/{key}"
OptionName(variant_name, key) == variant_name \o <<key>>

\* CONF.get(section, option): the value, or an error when the option is
\* missing or the store is not ready.
ConfGet(cs, option) ==
    IF ~conf_ready THEN [exc |-> "ConfigUnavailableError", value |-> <<None>>]
    ELSE IF option \notin DOMAIN cs.conf
         THEN [exc |-> "NoOptionError", value |-> <<None>>]
         ELSE [exc |-> "none", value |-> cs.conf[option]]

\* CONF.get(section, option, default=default)
ConfGetDefault(cs, option, default) ==
    IF ~conf_ready THEN [exc |-> "ConfigUnavailableError", value |-> <<None>>]
    ELSE IF option \notin DOMAIN cs.conf
         THEN [exc |-> "none", value |-> default]
         ELSE [exc |-> "none", value |-> cs.conf[option]]

\* CONF.set(section, option, value)
ConfSet(cs, option, value) ==
    IF ~conf_ready
    THEN [cs |-> [cs EXCEPT !.set_calls = @ \cup {option}],
          exc |-> "ConfigUnavailableError"]
    ELSE [cs |-> [cs EXCEPT
                    !.conf = [o \in (DOMAIN cs.conf) \cup {option} |->
                                 IF o = option THEN value ELSE cs.conf[o]],
                    !.writes = @ \cup {option},
                    !.set_calls = @ \cup {option}],
          exc |-> "none"]

\* The elements of a list
Range(seq) == {seq[i] : i \in DOMAIN seq}

\* Bind(x, F) is F(x) with x computed once.
Bind(x, F(_)) == CHOOSE y \in {F(v) : v \in {x}} : TRUE

\* spyder.config.gui.set_color_scheme(name, color_scheme, replace): writes
\* each key of the scheme; without replace, a key that already has a value
\* is skipped.
RECURSIVE SetColorSchemeKeys(_, _, _, _, _)
SetColorSchemeKeys(r, name, color_scheme, replace, keys) ==
    IF keys = <<>> THEN r
    ELSE Bind(r, LAMBDA v :
        IF v.exc # "none" THEN v
        ELSE Bind(ConfGetDefault(v.cs, OptionName(name, Head(keys)), <<None>>), LAMBDA got :
            IF got.exc # "none" THEN [v EXCEPT !.exc = got.exc]
            ELSE IF got.value = <<None>> \/ replace
                 THEN SetColorSchemeKeys(
                          ConfSet(v.cs, OptionName(name, Head(keys)), color_scheme[Head(keys)]),
                          name, color_scheme, replace, Tail(keys))
                 ELSE SetColorSchemeKeys(v, name, color_scheme, replace, Tail(keys))))

set_color_scheme(cs, name, color_scheme, replace) ==
    SetColorSchemeKeys([cs |-> cs, exc |-> "none"], name, color_scheme, replace,
                       COLOR_SCHEME_KEYS)

\* ------------------------------------------------------------------------
\* ThemeManager
\* ------------------------------------------------------------------------
\* ThemeManager.__init__
NewThemeManager ==
    [current_theme |-> None,
     current_palette |-> NoPalette,
     current_stylesheet |-> NoStylesheet,
     loaded_resource_modules |-> {}]

\* The outcome of a call that loads a theme.
Result(cs, exc, palette, stylesheet) ==
    [cs |-> cs, exc |-> exc, palette |-> palette, stylesheet |-> stylesheet]
Raised(cs, exc) == Result(cs, exc, NoPalette, NoStylesheet)

\* importlib.import_module(theme_name)
ImportModule(theme_name) ==
    IF theme_name \notin DOMAIN env THEN "ImportError" ELSE env[theme_name].import

\* ThemeManager.get_theme_display_name: a string fixed by the variant
get_theme_display_name(theme_variant) == <<"display name of">> \o theme_variant

\* ThemeManager._load_theme_resources: executes the resource module and
\* keeps a reference to it under the file's path.
LoadThemeResources(cs, rc_file) ==
    [cs EXCEPT !.tm.loaded_resource_modules = @ \cup {rc_file},
               !.loads = Append(@, rc_file)]

\* ThemeManager._load_stylesheet
LoadStylesheet(cs, theme_name, ui_mode) ==
    LET imported == ImportModule(theme_name)
        dir == IF ui_mode = "dark" THEN "dark" ELSE "light"
    IN IF imported # "ok" THEN Raised(cs, imported)
       ELSE IF dir \notin env[theme_name].qss THEN Raised(cs, "ValueError")
       ELSE Bind(IF dir \in env[theme_name].rc
                 THEN LoadThemeResources(cs, <<theme_name, dir, "rc">>)
                 ELSE cs, LAMBDA cs1 :
                Result([cs1 EXCEPT !.loads = Append(@, <<theme_name, dir, "qss">>)],
                       "none", NoPalette, <<theme_name, dir, "qss">>))

\* _load_theme_internal that also records the theme as the current one
LoadThemeInternalSetsCurrent(cs, theme_name, ui_mode) ==
    LET mode == IF ui_mode = None
                THEN (IF dark_interface THEN "dark" ELSE "light")
                ELSE ui_mode
        imported == ImportModule(theme_name)
        cls == IF mode = "dark" THEN "dark" ELSE "light"
    IN IF imported # "ok" THEN Raised(cs, imported)
       ELSE IF cls \notin env[theme_name].classes THEN Raised(cs, "ValueError")
       ELSE Bind(LoadStylesheet(cs, theme_name, mode), LAMBDA sheet :
                IF sheet.exc # "none" THEN sheet
                ELSE Result([sheet.cs EXCEPT !.tm.current_theme = theme_name],
                            "none", PaletteClass(theme_name, cls), sheet.stylesheet))

\* ThemeManager._load_theme_internal
LoadThemeInternal(cs, theme_name, ui_mode) ==
    LET mode == IF ui_mode = None
                THEN (IF dark_interface THEN "dark" ELSE "light")
                ELSE ui_mode
        imported == ImportModule(theme_name)
        cls == IF mode = "dark" THEN "dark" ELSE "light"
    IN IF imported # "ok" THEN Raised(cs, imported)
       ELSE IF cls \notin env[theme_name].classes THEN Raised(cs, "ValueError")
       ELSE Bind(LoadStylesheet(cs, theme_name, mode), LAMBDA sheet :
                IF sheet.exc # "none" THEN sheet
                ELSE Result(sheet.cs, "none", PaletteClass(theme_name, cls),
                            sheet.stylesheet))

\* get_syntax_color_scheme that reads a missing attribute as a default
get_syntax_color_scheme_defaulting(palette) ==
    [exc |-> "none",
     scheme |-> [k \in SchemeKeys |-> PaletteValue(palette, AttrName(k))]]

\* get_syntax_color_scheme with the values of two keys exchanged
get_syntax_color_scheme_swapped(palette) ==
    IF EditorAttrs \subseteq palette.attrs
    THEN [exc |-> "none",
          scheme |-> [k \in SchemeKeys |->
                         PaletteValue(palette,
                                      AttrName(IF k = "keyword" THEN "builtin"
                                               ELSE IF k = "builtin" THEN "keyword"
                                               ELSE k))]]
    ELSE [exc |-> "AttributeError", scheme |-> <<>>]

\* The dict literal of get_syntax_color_scheme: reading an attribute the
\* palette class lacks raises AttributeError.
get_syntax_color_scheme(palette) ==
    IF EditorAttrs \subseteq palette.attrs
    THEN [exc |-> "none",
          scheme |-> [k \in SchemeKeys |-> PaletteValue(palette, AttrName(k))]]
    ELSE [exc |-> "AttributeError", scheme |-> <<>>]

\* palette_attrs that reads no attribute
PaletteAttrsUnread(palette) ==
    [exc |-> "none",
     scheme |-> [k \in SchemeKeys |-> PaletteValue(palette, AttrName(k))]]

\* load_theme's dict literal palette_attrs
PaletteAttrs(palette) ==
    IF EditorAttrs \subseteq palette.attrs
    THEN [exc |-> "none",
          scheme |-> [k \in SchemeKeys |-> PaletteValue(palette, AttrName(k))]]
    ELSE [exc |-> "AttributeError", scheme |-> <<>>]

\* for key, value in <dict>.items(): CONF.set("appearance", f"{variant}/{key}", value)
RECURSIVE SetAllKeys(_, _, _, _)
SetAllKeys(r, variant_name, scheme, keys) ==
    IF keys = <<>> THEN r
    ELSE Bind(r, LAMBDA v :
        IF v.exc # "none" THEN v
        ELSE SetAllKeys(ConfSet(v.cs, OptionName(variant_name, Head(keys)), scheme[Head(keys)]),
                        variant_name, scheme, Tail(keys)))

\* The tail of load_theme and of export_theme_to_config: the display name
\* is written after the colours.
SetDisplayName(colours, variant_name) ==
    IF colours.exc # "none" THEN colours
    ELSE ConfSet(colours.cs, OptionName(variant_name, "name"),
                 get_theme_display_name(variant_name))

\* ThemeManager.load_theme
LoadTheme(cs, theme_name, ui_mode) ==
    Bind(LoadThemeInternal(cs, theme_name, ui_mode), LAMBDA loaded :
        IF loaded.exc # "none" THEN loaded
        ELSE
        Bind([loaded.cs EXCEPT !.tm.current_theme = theme_name,
                               !.tm.current_palette = loaded.palette,
                               !.tm.current_stylesheet = loaded.stylesheet], LAMBDA cs1 :
        Bind(PaletteAttrs(loaded.palette), LAMBDA palette_attrs :
            IF palette_attrs.exc # "none" THEN Raised(cs1, palette_attrs.exc)
            ELSE
            Bind(SetDisplayName(
                     SetAllKeys([cs |-> cs1, exc |-> "none"],
                                VariantName(theme_name, ui_mode),
                                palette_attrs.scheme, SchemeKeySeq),
                     VariantName(theme_name, ui_mode)), LAMBDA written :
                IF written.exc # "none" THEN Raised(written.cs, written.exc)
                ELSE Result(written.cs, "none", loaded.palette, loaded.stylesheet)))))

\* ------------------------------------------------------------------------
\* Discovery
\* ------------------------------------------------------------------------
\* sorted(list of strings)
RECURSIVE SortedInsert(_, _)
SortedInsert(seq, x) ==
    IF seq = <<>> THEN <<x>>
    ELSE IF StrRank(x) < StrRank(Head(seq)) THEN <<x>> \o seq
         ELSE <<Head(seq)>> \o SortedInsert(Tail(seq), x)

RECURSIVE Sorted(_)
Sorted(seq) ==
    IF seq = <<>> THEN <<>>
    ELSE Bind(Sorted(Tail(seq)), LAMBDA rest : SortedInsert(rest, Head(seq)))

\* importlib.import_module(package_name): the package imports when one of
\* its themes is there.
ImportPackage(package_name) ==
    IF \E t \in DOMAIN env : env[t] # NotInstalled THEN "ok" ELSE "ImportError"

\* The loop over package.THEMES in get_available_themes. An ImportError,
\* AttributeError or ValueError of one theme is skipped, any other
\* exception leaves the loop.
RECURSIVE CollectThemes(_, _, _)
CollectThemes(package_name, names, acc) ==
    IF names = <<>> THEN acc
    ELSE Bind(acc, LAMBDA found :
        LET path == ModulePath(package_name, Head(names))
            shape == env[path]
        IN IF found.exc # "none" THEN found
           ELSE IF ~shape.registered
           THEN CollectThemes(package_name, Tail(names), found)
           ELSE IF shape.get_module \in {"ImportError", "AttributeError", "ValueError"}
           THEN CollectThemes(package_name, Tail(names), found)
           ELSE IF shape.get_module # "ok"
           THEN [found EXCEPT !.exc = shape.get_module]
           ELSE IF shape.theme_id /\ shape.classes # {}
           THEN CollectThemes(package_name, Tail(names),
                              [found EXCEPT !.themes = Append(@, path)])
           ELSE CollectThemes(package_name, Tail(names), found))

\* ThemeManager.get_available_themes
get_available_themes ==
    Bind(IF ImportPackage(theme_packages[1]) = "ok"
         THEN CollectThemes(theme_packages[1], THEMES, [exc |-> "none", themes |-> <<>>])
         ELSE [exc |-> "none", themes |-> <<>>], LAMBDA found :
        IF found.exc # "none" THEN found
        ELSE [exc |-> "none", themes |-> Sorted(found.themes)])

\* ThemeManager.get_theme_modes
get_theme_modes(theme_name) ==
    LET imported == ImportModule(theme_name)
    IN IF imported = "ImportError" THEN [exc |-> "none", modes |-> <<"dark", "light">>]
       ELSE IF imported # "ok" THEN [exc |-> imported, modes |-> <<>>]
       ELSE LET modes == (IF "dark" \in env[theme_name].classes THEN <<"dark">> ELSE <<>>)
                         \o (IF "light" \in env[theme_name].classes THEN <<"light">> ELSE <<>>)
            IN [exc |-> "none",
                modes |-> IF modes # <<>> THEN modes ELSE <<"dark", "light">>]

\* Python's order on the variant strings "<theme>/<mode>" of the themes at
\* hand, none of whose names is a prefix of another's.
VariantLess(a, b) ==
    \/ StrRank(a[1]) < StrRank(b[1])
    \/ a[1] = b[1] /\ StrRank(a[2]) < StrRank(b[2])

\* sorted(variants)
RECURSIVE SortedVariantInsert(_, _)
SortedVariantInsert(seq, x) ==
    IF seq = <<>> THEN <<x>>
    ELSE IF VariantLess(x, Head(seq)) THEN <<x>> \o seq
         ELSE <<Head(seq)>> \o SortedVariantInsert(Tail(seq), x)

RECURSIVE SortedVariants(_)
SortedVariants(seq) ==
    IF seq = <<>> THEN <<>>
    ELSE Bind(SortedVariants(Tail(seq)), LAMBDA rest : SortedVariantInsert(rest, Head(seq)))

\* get_available_theme_variants, the two loops
RECURSIVE CollectVariants(_, _)
CollectVariants(themes, acc) ==
    IF themes = <<>> THEN acc
    ELSE Bind(acc, LAMBDA found :
        IF found.exc # "none" THEN found
        ELSE Bind(get_theme_modes(Head(themes)), LAMBDA modes :
            IF modes.exc # "none" THEN [found EXCEPT !.exc = modes.exc]
            ELSE CollectVariants(
                     Tail(themes),
                     [found EXCEPT !.variants =
                         @ \o [i \in 1..Len(modes.modes) |->
                                   VariantName(Head(themes), modes.modes[i])]])))

\* get_available_theme_variants that pairs every theme with both modes
get_available_theme_variants_both_modes ==
    Bind(get_available_themes, LAMBDA themes :
        IF themes.exc # "none" THEN [exc |-> themes.exc, variants |-> <<>>]
        ELSE [exc |-> "none",
              variants |-> SortedVariants(
                  [i \in 1..(2 * Len(themes.themes)) |->
                      VariantName(themes.themes[(i + 1) \div 2],
                                  IF i % 2 = 1 THEN "dark" ELSE "light")])])

\* ThemeManager.get_available_theme_variants
get_available_theme_variants ==
    Bind(get_available_themes, LAMBDA themes :
        IF themes.exc # "none" THEN [exc |-> themes.exc, variants |-> <<>>]
        ELSE Bind(CollectVariants(themes.themes, [exc |-> "none", variants |-> <<>>]),
                  LAMBDA found :
            IF found.exc # "none" THEN [exc |-> found.exc, variants |-> <<>>]
            ELSE [exc |-> "none", variants |-> SortedVariants(found.variants)]))

\* ------------------------------------------------------------------------
\* Export
\* ------------------------------------------------------------------------
\* the colours written by set_color_scheme whatever replace is
ExportWriteColorsFill(cs, variant_name, color_scheme, replace) ==
    set_color_scheme(cs, variant_name, color_scheme, FALSE)

\* the colours written key by key whatever replace is
ExportWriteColorsForce(cs, variant_name, color_scheme, replace) ==
    SetAllKeys([cs |-> cs, exc |-> "none"], variant_name, color_scheme, SchemeKeySeq)

\* export_theme_to_config, "if replace: ... else: set_color_scheme(...)"
ExportWriteColors(cs, variant_name, color_scheme, replace) ==
    IF replace
    THEN SetAllKeys([cs |-> cs, exc |-> "none"], variant_name, color_scheme, SchemeKeySeq)
    ELSE set_color_scheme(cs, variant_name, color_scheme, replace)

\* export_theme_to_config, "Restore original theme if different from what
\* we just exported"; a failure of the reload is swallowed.
RestoreAfterExport(cs, current_theme, theme_name) ==
    IF current_theme # None /\ current_theme # "" /\ current_theme # theme_name
    THEN LoadThemeInternal(cs, current_theme,
                           IF dark_interface THEN "dark" ELSE "light").cs
    ELSE cs

\* export_theme_to_config whose restore lets a failed reload out
ExportThemeToConfigRestoreRaises(cs, theme_name, ui_mode, replace) ==
    Bind(cs.tm.current_theme, LAMBDA current_theme :
    Bind(LoadThemeInternal(cs, theme_name, ui_mode), LAMBDA loaded :
        IF loaded.exc # "none" THEN Raised(loaded.cs, loaded.exc)
        ELSE
        Bind(get_syntax_color_scheme(loaded.palette), LAMBDA color_scheme :
            IF color_scheme.exc # "none" THEN Raised(loaded.cs, color_scheme.exc)
            ELSE
            Bind(SetDisplayName(
                     ExportWriteColors(loaded.cs, VariantName(theme_name, ui_mode),
                                       color_scheme.scheme, replace),
                     VariantName(theme_name, ui_mode)), LAMBDA written :
                IF written.exc # "none" THEN Raised(written.cs, written.exc)
                ELSE IF current_theme \in {None, "", theme_name}
                THEN Result(written.cs, "none", NoPalette, NoStylesheet)
                ELSE Bind(LoadThemeInternal(written.cs, current_theme,
                                            IF dark_interface THEN "dark" ELSE "light"),
                          LAMBDA restored :
                              Result(restored.cs, restored.exc, NoPalette, NoStylesheet))))))

\* ThemeManager.export_theme_to_config
ExportThemeToConfig(cs, theme_name, ui_mode, replace) ==
    Bind(cs.tm.current_theme, LAMBDA current_theme :
    Bind(LoadThemeInternal(cs, theme_name, ui_mode), LAMBDA loaded :
        IF loaded.exc # "none" THEN Raised(loaded.cs, loaded.exc)
        ELSE
        Bind(get_syntax_color_scheme(loaded.palette), LAMBDA color_scheme :
            IF color_scheme.exc # "none" THEN Raised(loaded.cs, color_scheme.exc)
            ELSE
            Bind(SetDisplayName(
                     ExportWriteColors(loaded.cs, VariantName(theme_name, ui_mode),
                                       color_scheme.scheme, replace),
                     VariantName(theme_name, ui_mode)), LAMBDA written :
                IF written.exc # "none" THEN Raised(written.cs, written.exc)
                ELSE Result(RestoreAfterExport(written.cs, current_theme, theme_name),
                            "none", NoPalette, NoStylesheet)))))

\* export_all_themes_to_config, the completeness check of one variant: the
\* name and every colour key can be read.
RECURSIVE AllReadable(_, _, _)
AllReadable(cs, variant_name, keys) ==
    IF keys = <<>> THEN TRUE
    ELSE IF ConfGet(cs, OptionName(variant_name, Head(keys))).exc # "none" THEN FALSE
         ELSE AllReadable(cs, variant_name, Tail(keys))

\* a completeness check that never finds a variant complete
IsCompleteNever(cs, variant_name) == FALSE

\* a completeness check that looks for the name only
IsCompleteNameOnly(cs, variant_name) ==
    ConfGet(cs, OptionName(variant_name, "name")).exc = "none"

IsComplete(cs, variant_name) ==
    /\ ConfGet(cs, OptionName(variant_name, "name")).exc = "none"
    /\ AllReadable(cs, variant_name, COLOR_SCHEME_KEYS)

\* export_all_themes_to_config, the body of "if not is_complete:"; every
\* exception is logged and dropped.
ExportVariant(cs, theme_name, ui_mode) ==
    Bind(LoadThemeInternal(cs, theme_name, ui_mode), LAMBDA loaded :
        IF loaded.exc # "none" THEN loaded.cs
        ELSE Bind(get_syntax_color_scheme(loaded.palette), LAMBDA color_scheme :
            IF color_scheme.exc # "none" THEN loaded.cs
            ELSE SetDisplayName(
                     set_color_scheme(loaded.cs, VariantName(theme_name, ui_mode),
                                      color_scheme.scheme, FALSE),
                     VariantName(theme_name, ui_mode)).cs))

\* export_all_themes_to_config, "for ui_mode in self.get_theme_modes(theme_name)"
RECURSIVE ExportModes(_, _, _)
ExportModes(cs, theme_name, modes) ==
    IF modes = <<>> THEN cs
    ELSE Bind(cs, LAMBDA v :
        ExportModes(IF IsComplete(v, VariantName(theme_name, Head(modes))) THEN v
                    ELSE ExportVariant(v, theme_name, Head(modes)),
                    theme_name, Tail(modes)))

\* export_all_themes_to_config, "for theme_name in self.get_available_themes()"
RECURSIVE ExportThemes(_, _)
ExportThemes(r, themes) ==
    IF themes = <<>> THEN r
    ELSE Bind(r, LAMBDA v :
        IF v.exc # "none" THEN v
        ELSE Bind(get_theme_modes(Head(themes)), LAMBDA modes :
            IF modes.exc # "none" THEN [v EXCEPT !.exc = modes.exc]
            ELSE ExportThemes([v EXCEPT !.cs = ExportModes(v.cs, Head(themes), modes.modes)],
                              Tail(themes))))

\* export_all_themes_to_config, "Restore original theme if needed"
RestoreAfterExportAll(cs, current_theme) ==
    IF current_theme # None /\ current_theme # "" /\ current_theme # cs.tm.current_theme
    THEN LoadTheme(cs, current_theme, IF dark_interface THEN "dark" ELSE "light").cs
    ELSE cs

\* ThemeManager.export_all_themes_to_config
ExportAllThemesToConfig(cs) ==
    Bind(cs.tm.current_theme, LAMBDA current_theme :
    Bind(get_available_themes, LAMBDA themes :
        IF themes.exc # "none" THEN Raised(cs, themes.exc)
        ELSE Bind(ExportThemes([cs |-> cs, exc |-> "none"], themes.themes), LAMBDA done :
            IF done.exc # "none" THEN Raised(done.cs, done.exc)
            ELSE Bind(done.cs, LAMBDA cs1 :
                Result(RestoreAfterExportAll(cs1, current_theme), "none",
                       NoPalette, NoStylesheet)))))

\* ------------------------------------------------------------------------
\* spyder/utils/palette.py
\* ------------------------------------------------------------------------
\* default="spyder_themes.spyder/dark"
DefaultSelected == <<DefaultTheme, "dark">>

\* '/' in selected
HasSlash(selected) == Len(selected) >= 2

\* selected.rsplit('/', 1), for a string with one '/'
RSplit(selected) == [theme_name |-> selected[1], ui_mode |-> selected[2]]

\* theme_manager.normalize_theme_name(theme_name): ThemeManager defines no
\* attribute of that name, the lookup raises AttributeError.
normalize_theme_name(theme_name) == [exc |-> "AttributeError", value |-> theme_name]

\* _get_theme_palette, the first inner try: export the selected theme; any
\* exception is logged and dropped.
ExportSelected(cs) ==
    Bind(ConfGetDefault(cs, SelectedOption, DefaultSelected), LAMBDA got :
        IF got.exc # "none" THEN cs
        ELSE IF HasSlash(got.value)
        THEN Bind(normalize_theme_name(RSplit(got.value).theme_name), LAMBDA normal :
                 IF normal.exc # "none" THEN cs
                 ELSE ExportThemeToConfig(cs, normal.value, RSplit(got.value).ui_mode,
                                          TRUE).cs)
        ELSE cs)

\* _get_theme_palette, the second inner try: read the selection; of the
\* exceptions only AttributeError, ImportError, RuntimeError and OSError
\* are turned into the default.
ReadSelected(cs) ==
    Bind(ConfGetDefault(cs, SelectedOption, DefaultSelected), LAMBDA got :
        IF got.exc = "none" THEN [exc |-> "none", selected |-> got.value]
        ELSE IF got.exc \in {"AttributeError", "ImportError", "RuntimeError", "OSError"}
        THEN [exc |-> "none", selected |-> DefaultSelected]
        ELSE [exc |-> got.exc, selected |-> DefaultSelected])

\* _get_theme_palette, "Parse theme name and mode from the selected
\* variant", normalize the name, load the theme
LoadSelected(cs, selected) ==
    LET theme_name == IF HasSlash(selected) THEN RSplit(selected).theme_name
                      ELSE selected[1]
        ui_mode == IF HasSlash(selected) THEN RSplit(selected).ui_mode ELSE "dark"
    IN Bind(normalize_theme_name(theme_name), LAMBDA normal :
           IF normal.exc # "none" THEN Raised(cs, normal.exc)
           ELSE LoadTheme(cs, normal.value, ui_mode))

\* _get_theme_palette, the body of the outer try
ResolveSelected(cs) ==
    IF conf_ready
    THEN Bind(ExportSelected([cs EXCEPT !.reads = @ \cup {SelectedOption}]), LAMBDA cs1 :
         Bind(ReadSelected(cs1), LAMBDA sel :
             IF sel.exc # "none" THEN Raised(cs1, sel.exc)
             ELSE LoadSelected(cs1, sel.selected)))
    ELSE LoadSelected(cs, DefaultSelected)

\* an except branch that gives up at once
FallbackNone(cs) == Raised(cs, "none")

\* _get_theme_palette, the except branch: load the default theme; when that
\* fails too the function returns None.
Fallback(cs) ==
    Bind(LoadTheme(cs, DefaultTheme, "dark"), LAMBDA loaded :
        IF loaded.exc = "none" THEN loaded
        ELSE Raised(loaded.cs, "none"))

\* palette._get_theme_palette: a palette class, or NoPalette for None
GetThemePalette(cs) ==
    Bind(ResolveSelected(cs), LAMBDA primary :
        IF primary.exc = "none" THEN primary
        ELSE Fallback(primary.cs))

\* ------------------------------------------------------------------------
\* Initial states
\* ------------------------------------------------------------------------
\* The installed themes: the default theme and one other theme, at least
\* one of them well formed or both missing.
DefaultCases ==
    {[t \in InstalledThemes |-> IF t = DefaultTheme THEN d ELSE Full] : d \in DefaultShapes}
    \cup {[t \in InstalledThemes |-> NotInstalled]}

EnvCases ==
    {[t \in InstalledThemes |-> IF t = DefaultTheme THEN Full ELSE o] : o \in OtherShapes}
    \cup DefaultCases

\* Values of 'selected'
SelectedValues ==
    {<<DefaultTheme, "dark">>, <<Solarized, "dark">>, <<Nonexistent, "dark">>,
     <<Solarized>>}

CustomColour == <<"#c0ffee">>
CustomName == <<"My theme">>

\* What the store holds of one variant when the program starts.
StoredEntry(variant_name, keys, with_name) ==
    [o \in {OptionName(variant_name, k) : k \in keys}
           \cup (IF with_name THEN {OptionName(variant_name, "name")} ELSE {}) |->
        IF o = OptionName(variant_name, "name") THEN CustomName ELSE CustomColour]

NoEntry == <<>>

\* Entries of the store for the calls on the manager
ManagerEntries ==
    {NoEntry,
     StoredEntry(VariantName(DefaultTheme, "dark"), {"background"}, FALSE),
     StoredEntry(VariantName(Solarized, "dark"), SchemeKeys, TRUE),
     StoredEntry(VariantName(Solarized, "dark"), SchemeKeys \ {"magic"}, TRUE),
     StoredEntry(VariantName(Solarized, "light"), SchemeKeys, FALSE)}

\* Entries of the store for the resolution of the palette
PaletteEntries ==
    {NoEntry,
     StoredEntry(VariantName(DefaultTheme, "dark"), {"background"}, FALSE),
     StoredEntry(VariantName(Solarized, "dark"), {"background"}, FALSE)}

Store(selected, entries) ==
    (SelectedOption :> selected) @@ (NamesOption :> <<>>) @@ entries

NoCall ==
    [op |-> "none", theme |-> None, mode |-> None, replace |-> FALSE,
     exc |-> "none", palette |-> NoPalette, first |-> FALSE,
     pre_tm |-> NewThemeManager, pre_conf |-> <<>>, writes |-> {},
     prev_op |-> "none", prev_exc |-> "none", prev_writes |-> {},
     loads |-> <<>>, value |-> <<>>, set_calls |-> {}, reads |-> {}]

\* The preferences page before setup_page: no item, an empty dictionary,
\* both buttons enabled as Qt creates them.
NoPage ==
    [shown |-> FALSE, items |-> <<>>, scheme_choices_dict |-> <<>>, index |-> -1,
     delete_enabled |-> TRUE, reset_enabled |-> TRUE, ops |-> 0]

\* The state after the imports: a new manager, nothing resolved yet, no
\* preferences page.
Started ==
    /\ page = NoPage
    /\ tm = NewThemeManager
    /\ theme_palette = NoPalette
    /\ theme_palette_loaded = FALSE
    /\ calls = 0
    /\ last = NoCall

AllFull == [t \in InstalledThemes |-> Full]

\* Any installed themes, a store with one entry of a variant; the store is
\* ready, or not yet when every theme is well formed.
Init ==
    /\ env \in EnvCases
    /\ dark_interface \in BOOLEAN
    /\ conf_ready \in BOOLEAN
    /\ ~conf_ready => env = AllFull
    /\ conf \in {Store(<<Solarized, "dark">>, e) : e \in ManagerEntries}
    /\ Started

\* Start-up: the store ready or not, any selection, the default theme in
\* any shape.
InitPalette ==
    /\ env \in DefaultCases
    /\ dark_interface = TRUE
    /\ conf_ready \in BOOLEAN
    /\ conf \in {Store(sel, e) : sel \in SelectedValues, e \in PaletteEntries}
    /\ Started

\* ------------------------------------------------------------------------
\* Calls
\* ------------------------------------------------------------------------
\* Arguments of the calls
LoadArgs ==
    {<<DefaultTheme, "dark">>, <<DefaultTheme, "light">>, <<Solarized, "dark">>,
     <<Solarized, None>>, <<Nonexistent, "dark">>}
ExportArgs ==
    ({Solarized} \X UiModes \X BOOLEAN)
    \cup {<<DefaultTheme, "dark", TRUE>>, <<Nonexistent, "dark", TRUE>>}

Before == CallState(tm, conf, {})

Record(op, theme, mode, replace, r, first) ==
    [op |-> op, theme |-> theme, mode |-> mode, replace |-> replace,
     exc |-> r.exc, palette |-> r.palette, first |-> first,
     pre_tm |-> tm, pre_conf |-> conf, writes |-> r.cs.writes,
     prev_op |-> last.op, prev_exc |-> last.exc, prev_writes |-> last.writes,
     loads |-> r.cs.loads, value |-> <<>>,
     set_calls |-> r.cs.set_calls, reads |-> r.cs.reads]

Finish(op, theme, mode, replace, r, first) ==
    /\ tm' = r.cs.tm
    /\ conf' = r.cs.conf
    /\ last' = Record(op, theme, mode, replace, r, first)
    /\ calls' = calls + 1
    /\ UNCHANGED <<env, dark_interface, conf_ready, page>>

\* theme_manager.load_theme(theme_name, ui_mode)
CallLoadTheme(theme_name, ui_mode) ==
    /\ calls < MaxCalls
    /\ \E r \in {LoadTheme(Before, theme_name, ui_mode)} :
           Finish("load_theme", theme_name, ui_mode, FALSE, r, FALSE)
    /\ UNCHANGED <<theme_palette, theme_palette_loaded>>

\* theme_manager.export_theme_to_config(theme_name, ui_mode, replace)
CallExportTheme(theme_name, ui_mode, replace) ==
    /\ calls < MaxCalls
    /\ \E r \in {ExportThemeToConfig(Before, theme_name, ui_mode, replace)} :
           Finish("export_theme_to_config", theme_name, ui_mode, replace, r, FALSE)
    /\ UNCHANGED <<theme_palette, theme_palette_loaded>>

\* theme_manager.export_all_themes_to_config()
CallExportAll ==
    /\ calls < MaxCalls
    /\ \E r \in {ExportAllThemesToConfig(Before)} :
           Finish("export_all_themes_to_config", None, None, FALSE, r, FALSE)
    /\ UNCHANGED <<theme_palette, theme_palette_loaded>>

\* __getattr__ that resolves the palette on every access
GetAttrResolvesAgain(cs) == GetThemePalette(cs)

\* palette.__getattr__, the value of _theme_palette it ends with: resolved
\* on the first access, the stored one afterwards
GetAttr(cs) ==
    IF ~theme_palette_loaded THEN GetThemePalette(cs)
    ELSE Result(cs, "none", theme_palette, NoStylesheet)

\* palette.__getattr__('SpyderPalette')
GetAttrSpyderPalette ==
    /\ calls < MaxCalls
    /\ \E resolved \in {GetAttr(Before)} :
          /\ theme_palette' = resolved.palette
          /\ theme_palette_loaded' = TRUE
          /\ Finish("SpyderPalette", None, None, FALSE,
                    [resolved EXCEPT !.exc = IF resolved.palette = NoPalette
                                             THEN "ImportError" ELSE "none"],
                    ~theme_palette_loaded)

\* The configuration system finishes starting up.
ConfBecomesReady ==
    /\ ~conf_ready
    /\ conf_ready' = TRUE
    /\ last' = [NoCall EXCEPT !.op = "conf_ready", !.pre_tm = tm, !.pre_conf = conf,
                              !.prev_op = last.op, !.prev_exc = last.exc,
                              !.prev_writes = last.writes]
    /\ UNCHANGED <<env, dark_interface, tm, conf, theme_palette,
                   theme_palette_loaded, calls, page>>

Next ==
    \/ \E a \in LoadArgs : CallLoadTheme(a[1], a[2])
    \/ \E a \in ExportArgs : CallExportTheme(a[1], a[2], a[3])
    \/ CallExportAll
    \/ GetAttrSpyderPalette
    \/ ConfBecomesReady

Spec == Init /\ [][Next]_vars

\* ------------------------------------------------------------------------
\* The static methods and the colour extraction, on any installation
\* ------------------------------------------------------------------------
AllShapes == DefaultShapes \cup OtherShapes

\* What 'names' holds at start-up: the default [], or the variants of a
\* theme that has since been removed.
NamesValues == {<<>>, <<VariantName(Nonexistent, "dark")>>}

InitDiscovery ==
    /\ env \in [InstalledThemes -> AllShapes]
    /\ dark_interface = TRUE
    /\ conf_ready = TRUE
    /\ conf \in {[Store(DefaultSelected, NoEntry) EXCEPT ![NamesOption] = names] :
                    names \in NamesValues}
    /\ Started

\* A call that reads the installation and changes nothing
Answer(op, theme, mode, exc, palette, value) ==
    /\ calls < MaxCalls
    /\ calls' = calls + 1
    /\ last' = [NoCall EXCEPT !.op = op, !.theme = theme, !.mode = mode,
                              !.exc = exc, !.palette = palette, !.value = value,
                              !.pre_tm = tm, !.pre_conf = conf,
                              !.prev_op = last.op, !.prev_exc = last.exc,
                              !.prev_writes = last.writes]
    /\ UNCHANGED <<env, dark_interface, conf_ready, tm, conf, theme_palette,
                   theme_palette_loaded, page>>

\* ThemeManager.get_available_themes()
CallGetAvailableThemes ==
    \E r \in {get_available_themes} :
        Answer("get_available_themes", None, None, r.exc, NoPalette, r.themes)

\* ThemeManager.get_theme_modes(theme_name)
CallGetThemeModes(theme_name) ==
    \E r \in {get_theme_modes(theme_name)} :
        Answer("get_theme_modes", theme_name, None, r.exc, NoPalette, r.modes)

\* ThemeManager.get_available_theme_variants()
CallGetAvailableThemeVariants ==
    \E r \in {get_available_theme_variants} :
        Answer("get_available_theme_variants", None, None, r.exc, NoPalette, r.variants)

\* color_scheme.items(): the pairs in the order of the dict literal
Items(scheme) ==
    IF scheme = <<>> THEN <<>>
    ELSE [i \in 1..Len(SchemeKeySeq) |-> <<SchemeKeySeq[i], scheme[SchemeKeySeq[i]]>>]

\* theme_manager.get_syntax_color_scheme(palette), palette a class of an
\* installed theme
CallGetSyntaxColorScheme(theme_name, ui_mode) ==
    /\ ImportModule(theme_name) = "ok"
    /\ ui_mode \in env[theme_name].classes
    /\ \E r \in {get_syntax_color_scheme(PaletteClass(theme_name, ui_mode))} :
           Answer("get_syntax_color_scheme", theme_name, ui_mode, r.exc,
                  PaletteClass(theme_name, ui_mode), Items(r.scheme))

\* Appearance.on_initialize
OnInitialize(cs) ==
    Bind(get_available_theme_variants, LAMBDA theme_variants :
        IF theme_variants.exc # "none" THEN Raised(cs, theme_variants.exc)
        ELSE IF theme_variants.variants # <<>>
        THEN Bind(ConfSet(cs, NamesOption, theme_variants.variants), LAMBDA written :
                 Result(written.cs, written.exc, NoPalette, NoStylesheet))
        ELSE Result(cs, "none", NoPalette, NoStylesheet))

CallOnInitialize ==
    /\ calls < MaxCalls
    /\ \E r \in {OnInitialize(Before)} :
           Finish("on_initialize", None, None, FALSE, r, FALSE)
    /\ UNCHANGED <<theme_palette, theme_palette_loaded>>

NextDiscovery ==
    \/ CallOnInitialize
    \/ CallGetAvailableThemes
    \/ \E t \in InstalledThemes \cup {Nonexistent} : CallGetThemeModes(t)
    \/ CallGetAvailableThemeVariants
    \/ \E t \in InstalledThemes, m \in UiModes : CallGetSyntaxColorScheme(t, m)

SpecDiscovery == InitDiscovery /\ [][NextDiscovery]_vars

SpecPalette == InitPalette /\ [][Next]_vars

\* ------------------------------------------------------------------------
\* Accesses of SpyderPalette while the selection changes
\* ------------------------------------------------------------------------
\* The preferences page saves another selection:
\* self.set_option('selected', current_scheme)
ChangeSelected(selected) ==
    /\ conf_ready
    /\ last.op # "set_selected"
    /\ conf[SelectedOption] # selected
    /\ conf' = [conf EXCEPT ![SelectedOption] = selected]
    /\ last' = [NoCall EXCEPT !.op = "set_selected", !.pre_tm = tm, !.pre_conf = conf,
                              !.writes = {SelectedOption},
                              !.prev_op = last.op, !.prev_exc = last.exc,
                              !.prev_writes = last.writes]
    /\ UNCHANGED <<env, dark_interface, conf_ready, tm, theme_palette,
                   theme_palette_loaded, calls, page>>

NextAccess ==
    \/ GetAttrSpyderPalette
    \/ \E selected \in SelectedValues : ChangeSelected(selected)
    \/ ConfBecomesReady

SpecAccess == InitPalette /\ [][NextAccess]_vars

\* ------------------------------------------------------------------------
\* The appearance page of the preferences dialog (AppearanceConfigPage)
\* ------------------------------------------------------------------------
CustomNamesOption == <<"custom_names">>

\* "custom-{0}".format(n) and int(name.split('-')[-1])
CustomLabels == <<"custom-0", "custom-1", "custom-2", "custom-3">>
CustomSchemeName(n) == <<CustomLabels[n + 1]>>
CustomSchemeIndex(name) ==
    (CHOOSE i \in DOMAIN CustomLabels : CustomLabels[i] = name[1]) - 1

\* CONF.get_default(section, option): the defaults of the section hold
\* 'names' and 'selected' and nothing of a scheme.
NoDefault == <<"NoDefault">>
get_default(option) ==
    IF option = NamesOption THEN <<>>
    ELSE IF option = SelectedOption THEN <<"qdarkstyle", "dark">>
    ELSE NoDefault

\* CONF.remove_option(section, option)
ConfRemoveOption(cs, option) ==
    [cs EXCEPT !.conf = [o \in (DOMAIN cs.conf) \ {option} |-> cs.conf[o]],
               !.writes = @ \cup ({option} \cap DOMAIN cs.conf)]

\* The outcome of a handler of the page: the store and manager, the page,
\* the exception it raised and the one it caught.
PageResult(cs, pg, exc, caught) ==
    [cs |-> cs, page |-> pg, exc |-> exc, caught |-> caught]

\* An item of the combobox: its text and its data; a separator has neither.
Item(text, data) == [text |-> text, data |-> data]
Separator == Item(<<>>, <<>>)
\* The None that stands for the separator in the list of choices
SeparatorChoice == <<>>

\* schemes_combobox.currentText(), indices counted from 0
current_scheme_name(pg) ==
    IF pg.index \in 0..(Len(pg.items) - 1) THEN pg.items[pg.index + 1].text ELSE <<>>

\* AppearanceConfigPage.current_scheme
current_scheme(pg) ==
    IF current_scheme_name(pg) \in DOMAIN pg.scheme_choices_dict
    THEN [exc |-> "none", value |-> pg.scheme_choices_dict[current_scheme_name(pg)]]
    ELSE [exc |-> "KeyError", value |-> <<>>]

\* combobox.findData(data): the first item with the data, or -1
findData(items, data) ==
    LET hits == {i \in DOMAIN items : items[i].data = data}
    IN  IF hits = {} THEN -1
        ELSE (CHOOSE i \in hits : \A j \in hits : i <= j) - 1

\* list.index(x) of a list that holds x
IndexOf(seq, x) ==
    (CHOOSE i \in DOMAIN seq : seq[i] = x /\ \A j \in 1..(i - 1) : seq[j] # x) - 1

\* list.remove(x) of a list that holds x
RemoveFirst(seq, x) ==
    SubSeq(seq, 1, IndexOf(seq, x)) \o SubSeq(seq, IndexOf(seq, x) + 2, Len(seq))

\* AppearanceConfigPage.update_buttons, the slot of currentIndexChanged
update_buttons(cs, pg) ==
    Bind(current_scheme(pg), LAMBDA current :
    Bind(ConfGet(cs, NamesOption), LAMBDA names :
        IF current.exc # "none" \/ names.exc # "none" THEN pg
        ELSE [pg EXCEPT !.delete_enabled = current.value \notin Range(names.value),
                        !.reset_enabled = current.value \in Range(names.value)]))

\* schemes_combobox.setCurrentIndex(index): an index out of range leaves no
\* current item; the signal is sent when the index changes.
setCurrentIndex(cs, pg, index) ==
    Bind(IF index \in 0..(Len(pg.items) - 1) THEN index ELSE -1, LAMBDA valid :
        IF valid = pg.index THEN pg
        ELSE update_buttons(cs, [pg EXCEPT !.index = valid]))

\* update_combobox, the single pass over the choices: the dictionary entry
\* and the combobox item of each
RECURSIVE AddChoices(_, _, _)
AddChoices(cs, choices, box) ==
    IF choices = <<>> THEN box
    ELSE IF Head(choices) = SeparatorChoice
    THEN AddChoices(cs, Tail(choices), [box EXCEPT !.items = Append(@, Separator)])
    ELSE Bind(ConfGet(cs, OptionName(Head(choices), "name")), LAMBDA stored :
         Bind(IF stored.exc = "none" THEN stored.value
              ELSE get_theme_display_name(Head(choices)), LAMBDA display_name :
             AddChoices(cs, Tail(choices),
                        [items |-> Append(box.items, Item(display_name, Head(choices))),
                         dict |-> (display_name :> Head(choices)) @@ box.dict])))

\* AppearanceConfigPage.update_combobox
update_combobox(cs, pg) ==
    Bind(ConfGetDefault(cs, SelectedOption, <<"spyder_themes.qdarkstyle", "dark">>),
         LAMBDA selected :
    Bind(get_available_theme_variants, LAMBDA names :
    Bind(ConfGetDefault(cs, CustomNamesOption, <<>>), LAMBDA custom_names :
        IF selected.exc # "none" THEN [page |-> pg, exc |-> selected.exc]
        ELSE IF names.exc # "none" THEN [page |-> pg, exc |-> names.exc]
        ELSE
        Bind(AddChoices(cs,
                        IF custom_names.value # <<>>
                        THEN names.variants \o <<SeparatorChoice>> \o custom_names.value
                        ELSE names.variants,
                        [items |-> <<>>, dict |-> <<>>]), LAMBDA box :
        Bind(IF findData(box.items, selected.value) # -1
             THEN findData(box.items, selected.value)
             ELSE IF findData(box.items, <<"spyder_themes.qdarkstyle", "dark">>) # -1
             THEN findData(box.items, <<"spyder_themes.qdarkstyle", "dark">>)
             ELSE 0, LAMBDA index :
            [page |-> setCurrentIndex(cs,
                          [pg EXCEPT !.items = box.items,
                                     !.scheme_choices_dict = box.dict,
                                     !.index = IF box.items = <<>> THEN -1 ELSE 0],
                          index),
             exc |-> "none"])))))

\* update_combobox() followed by update_editor_preview(), which reads
\* current_scheme
UpdateAndPreview(cs, pg, caught) ==
    Bind(update_combobox(cs, pg), LAMBDA updated :
        IF updated.exc # "none" THEN PageResult(cs, updated.page, updated.exc, caught)
        ELSE PageResult(cs, updated.page, current_scheme(updated.page).exc, caught))

\* AppearanceConfigPage.setup_page, from the list of custom names on: no
\* custom scheme is stored before the page has been used.
setup_page(cs, pg) ==
    Bind(ConfSet(cs, CustomNamesOption, <<>>), LAMBDA written :
        IF written.exc # "none" THEN PageResult(written.cs, pg, written.exc, None)
        ELSE Bind(UpdateAndPreview(written.cs, pg, None), LAMBDA r :
                 [r EXCEPT !.page.shown = (r.exc = "none")]))

\* AppearanceConfigPage.apply_settings
apply_settings(cs, pg) ==
    Bind(current_scheme(pg), LAMBDA current :
    Bind(ConfGetDefault(cs, SelectedOption, <<>>), LAMBDA saved :
        IF current.exc # "none" \/ saved.exc # "none"
        THEN UpdateAndPreview(cs, pg, "KeyError")
        ELSE IF current.value # saved.value
        THEN UpdateAndPreview(ConfSet(cs, SelectedOption, current.value).cs, pg, None)
        ELSE UpdateAndPreview(cs, pg, None)))

\* create_new_scheme, the number of the new scheme
NextCustomNumber(custom_names) ==
    LET custom_index == [i \in 0..(Len(custom_names) - 1) |->
                            CustomSchemeIndex(custom_names[i + 1])]
        gaps == {i \in DOMAIN custom_index : custom_index[i] # i}
        counter == IF gaps = {} THEN Len(custom_names) - 1
                   ELSE (CHOOSE i \in gaps : \A j \in gaps : i <= j) - 1
    IN  counter + 1

\* create_new_scheme, the copy of the keys of the current scheme
RECURSIVE CopyKeys(_, _, _, _)
CopyKeys(r, custom_name, scheme, keys) ==
    IF keys = <<>> THEN r
    ELSE Bind(r, LAMBDA v :
        IF v.exc # "none" THEN v
        ELSE Bind(ConfGet(v.cs, OptionName(scheme, Head(keys))), LAMBDA option :
            IF option.exc # "none" THEN [v EXCEPT !.exc = option.exc]
            ELSE CopyKeys(ConfSet(v.cs, OptionName(custom_name, Head(keys)), option.value),
                          custom_name, scheme, Tail(keys))))

\* AppearanceConfigPage.create_new_scheme: the dialog is accepted with the
\* name typed, or cancelled. load_from_conf() and the stacks of the dialog
\* belong to the base page and the scheme editor and write no option.
create_new_scheme(cs, pg, accepted, typed) ==
    Bind(ConfGet(cs, NamesOption), LAMBDA names :
    Bind(ConfGetDefault(cs, CustomNamesOption, <<>>), LAMBDA stored :
        IF names.exc # "none" THEN PageResult(cs, pg, names.exc, None)
        ELSE
        Bind(CustomSchemeName(NextCustomNumber(stored.value)), LAMBDA custom_name :
        Bind(Append(stored.value, custom_name), LAMBDA custom_names :
        Bind(ConfSet(cs, CustomNamesOption, custom_names), LAMBDA listed :
        Bind(current_scheme(pg), LAMBDA current :
            IF current.exc # "none" THEN PageResult(listed.cs, pg, current.exc, None)
            ELSE
            Bind(CopyKeys(listed, custom_name, current.value, COLOR_SCHEME_KEYS),
                 LAMBDA copied :
                IF copied.exc # "none" THEN PageResult(copied.cs, pg, copied.exc, None)
                ELSE
                Bind(ConfSet(copied.cs, OptionName(custom_name, "name"), custom_name),
                     LAMBDA named :
                    IF accepted
                    THEN Bind(ConfSet(named.cs, OptionName(custom_name, "name"), typed),
                              LAMBDA renamed :
                         Bind(update_combobox(renamed.cs, pg), LAMBDA updated :
                             IF updated.exc # "none"
                             THEN PageResult(renamed.cs, updated.page, updated.exc, None)
                             ELSE PageResult(
                                      renamed.cs,
                                      setCurrentIndex(
                                          renamed.cs, updated.page,
                                          IndexOf(names.value \o custom_names, custom_name) + 1),
                                      "none", None)))
                    ELSE PageResult(
                             ConfSet(named.cs, CustomNamesOption,
                                     RemoveFirst(custom_names, custom_name)).cs,
                             pg, "none", None)))))))))

\* delete_scheme, the removal of the options of the scheme
RECURSIVE RemoveOptions(_, _, _)
RemoveOptions(cs, scheme_name, keys) ==
    IF keys = <<>> THEN cs
    ELSE RemoveOptions(ConfRemoveOption(cs, OptionName(scheme_name, Head(keys))),
                       scheme_name, Tail(keys))

\* AppearanceConfigPage.delete_scheme: the warning is answered Yes or No.
delete_scheme(cs, pg, yes) ==
    Bind(current_scheme(pg), LAMBDA scheme_name :
        IF scheme_name.exc # "none" THEN PageResult(cs, pg, scheme_name.exc, None)
        ELSE IF ~yes THEN PageResult(cs, pg, "none", None)
        ELSE
        Bind(ConfGetDefault(cs, CustomNamesOption, <<>>), LAMBDA stored :
        Bind(IF scheme_name.value \in Range(stored.value)
             THEN RemoveFirst(stored.value, scheme_name.value)
             ELSE stored.value, LAMBDA custom_names :
        Bind(ConfSet(cs, CustomNamesOption, custom_names), LAMBDA listed :
            UpdateAndPreview(
                RemoveOptions(listed.cs, scheme_name.value,
                              Append(COLOR_SCHEME_KEYS, "name")),
                pg, None)))))

\* reset_to_default, the old method: the default of each key is stored.
RECURSIVE SetDefaults(_, _, _)
SetDefaults(cs, scheme, keys) ==
    IF keys = <<>> THEN cs
    ELSE SetDefaults(ConfSet(cs, OptionName(scheme, Head(keys)),
                             get_default(OptionName(scheme, Head(keys)))).cs,
                     scheme, Tail(keys))

\* AppearanceConfigPage.reset_to_default
reset_to_default(cs, pg) ==
    Bind(current_scheme(pg), LAMBDA scheme :
    Bind(ConfGet(cs, NamesOption), LAMBDA names :
        IF scheme.exc # "none" THEN PageResult(cs, pg, scheme.exc, None)
        ELSE IF names.exc # "none" THEN PageResult(cs, pg, names.exc, None)
        ELSE IF scheme.value \notin Range(names.value) THEN PageResult(cs, pg, "none", None)
        ELSE IF HasSlash(scheme.value)
        THEN Bind(ExportThemeToConfig(cs, RSplit(scheme.value).theme_name,
                                      RSplit(scheme.value).ui_mode, TRUE), LAMBDA exported :
                 IF exported.exc = "none" THEN PageResult(exported.cs, pg, "none", None)
                 ELSE PageResult(SetDefaults(exported.cs, scheme.value, COLOR_SCHEME_KEYS),
                                 pg, "none", exported.exc))
        ELSE PageResult(SetDefaults(cs, scheme.value, COLOR_SCHEME_KEYS), pg, "none", None)))

\* The installed themes when the page is opened: the default theme loads
\* in dark mode, since the page reads SpyderPalette.
PageEnvCases ==
    {[t \in InstalledThemes |-> IF t = DefaultTheme THEN Full ELSE NotInstalled],
     [t \in InstalledThemes |-> IF t = DefaultTheme THEN IncompleteLight ELSE DarkOnly]}

\* The state when the preferences dialog is opened: the palette has been
\* resolved and the plugin initialized.
InitPage ==
    /\ env \in PageEnvCases
    /\ dark_interface = TRUE
    /\ conf_ready = TRUE
    /\ theme_palette_loaded = TRUE
    /\ \E resolved \in {GetThemePalette(CallState(NewThemeManager,
                                                  Store(DefaultSelected, NoEntry), {}))} :
       \E initialized \in {OnInitialize(CallState(resolved.cs.tm, resolved.cs.conf, {}))} :
          /\ tm = initialized.cs.tm
          /\ conf = initialized.cs.conf
          /\ theme_palette = resolved.palette
    /\ calls = 0
    /\ page = NoPage
    /\ last = NoCall

\* A handler of the page has run.
PageFinish(op, r, name) ==
    /\ tm' = r.cs.tm
    /\ conf' = r.cs.conf
    /\ page' = [r.page EXCEPT !.ops = page.ops + 1]
    /\ last' = [NoCall EXCEPT !.op = op, !.exc = r.exc, !.value = <<r.caught, name>>,
                              !.pre_tm = tm, !.pre_conf = conf, !.writes = r.cs.writes]
    /\ UNCHANGED <<env, dark_interface, conf_ready, theme_palette,
                   theme_palette_loaded, calls>>

\* The preferences dialog creates the page.
SetupPage ==
    /\ ~page.shown
    /\ page.ops = 0
    /\ theme_palette # NoPalette
    /\ \E r \in {setup_page(Before, page)} : PageFinish("setup_page", r, None)

\* The user picks another scheme in the combobox.
SelectScheme(index) ==
    /\ page.shown
    /\ index \in 0..(Len(page.items) - 1)
    /\ index # page.index
    /\ page.items[index + 1] # Separator
    /\ page' = setCurrentIndex(Before, page, index)
    /\ UNCHANGED <<env, dark_interface, conf_ready, tm, conf, theme_palette,
                   theme_palette_loaded, calls, last>>

\* The user presses Apply.
CallApplySettings ==
    /\ page.shown
    /\ page.ops < MaxPageOps
    /\ \E r \in {apply_settings(Before, page)} : PageFinish("apply_settings", r, None)

\* Names the user types in the scheme editor
TypedNames == {CustomName, <<"Other theme">>}

\* The user presses "Create new syntax theme".
CallCreateNewScheme(accepted, typed) ==
    /\ page.shown
    /\ page.ops < MaxPageOps
    /\ Len(ConfGetDefault(Before, CustomNamesOption, <<>>).value) < MaxCustom
    /\ \E r \in {create_new_scheme(Before, page, accepted, typed)} :
           PageFinish("create_new_scheme", r,
                      CustomLabels[NextCustomNumber(conf[CustomNamesOption]) + 1])

\* The user presses "Delete syntax theme".
CallDeleteScheme(yes) ==
    /\ page.shown
    /\ page.ops < MaxPageOps
    /\ page.delete_enabled
    /\ \E r \in {delete_scheme(Before, page, yes)} : PageFinish("delete_scheme", r, None)

\* The user presses "Reset to defaults".
CallResetToDefault ==
    /\ page.shown
    /\ page.ops < MaxPageOps
    /\ page.reset_enabled
    /\ \E r \in {reset_to_default(Before, page)} : PageFinish("reset_to_default", r, None)

NextPage ==
    \/ SetupPage
    \/ \E index \in 0..(Len(page.items) - 1) : SelectScheme(index)
    \/ CallApplySettings
    \/ \E accepted \in BOOLEAN, typed \in TypedNames : CallCreateNewScheme(accepted, typed)
    \/ \E yes \in BOOLEAN : CallDeleteScheme(yes)
    \/ CallResetToDefault

SpecPage == InitPage /\ [][NextPage]_vars

\* ------------------------------------------------------------------------
\* Properties
\* ------------------------------------------------------------------------
Now == CallState(tm, conf, {})

IsExport == last.op = "export_theme_to_config"
IsExportAll == last.op = "export_all_themes_to_config"
IsAccess == last.op = "SpyderPalette"

\* The variant a call names
LastVariant == VariantName(last.theme, last.mode)

\* A theme is installed when its palette of the mode and its stylesheet load
\* and the palette has every editor attribute.
Loads(theme_name, ui_mode) ==
    LET r == LoadThemeInternal(Now, theme_name, ui_mode)
    IN r.exc = "none" /\ EditorAttrs \subseteq r.palette.attrs

DefaultInstalled == Loads(DefaultTheme, "dark")

\* C1: an export call, returning or raising and under either policy, leaves
\* the manager's current theme as it was before the call.
C1_ExportKeepsCurrentTheme ==
    (IsExport \/ IsExportAll) => tm.current_theme = last.pre_tm.current_theme

\* An export of a variant of another theme than the active one has returned.
C1_Witness ==
    /\ IsExport /\ last.exc = "none"
    /\ last.pre_tm.current_theme \notin {None, last.theme}
    /\ tm.current_theme = last.pre_tm.current_theme

\* C2: after export_theme_to_config(v, replace=True) has returned, every
\* colour key of v reads the value get_syntax_color_scheme gives for it on
\* the palette of v.
C2_ForceReplaceRoundTrip ==
    (IsExport /\ last.replace /\ last.exc = "none") =>
        \A k \in SchemeKeys :
            LET got == ConfGet(Now, OptionName(LastVariant, k))
            IN /\ got.exc = "none"
               /\ got.value = get_syntax_color_scheme(
                                  PaletteClass(last.theme, last.mode)).scheme[k]

\* 'spyder_themes.solarized/dark/background' held a custom colour and reads
\* '#002B36' after the forced export.
C2_Witness ==
    /\ IsExport /\ last.replace /\ last.exc = "none"
    /\ LastVariant = VariantName(Solarized, "dark")
    /\ OptionName(LastVariant, "background") \in DOMAIN last.pre_conf
    /\ last.pre_conf[OptionName(LastVariant, "background")] = CustomColour
    /\ conf[OptionName(LastVariant, "background")] = <<"#002B36">>

\* C3: export_theme_to_config(v, replace=False) leaves every colour key of v
\* that held a value with that value.
C3_FillKeepsExistingKeys ==
    (IsExport /\ ~last.replace) =>
        \A k \in SchemeKeys :
            LET option == OptionName(LastVariant, k)
            IN option \in DOMAIN last.pre_conf =>
                   /\ option \in DOMAIN conf
                   /\ conf[option] = last.pre_conf[option]

\* A fill export has kept a custom colour and has written a missing key.
C3_Witness ==
    /\ IsExport /\ ~last.replace /\ last.exc = "none"
    /\ \E k \in SchemeKeys :
          /\ OptionName(LastVariant, k) \in DOMAIN last.pre_conf
          /\ conf[OptionName(LastVariant, k)] = CustomColour
    /\ \E k \in SchemeKeys : OptionName(LastVariant, k) \in last.writes

\* C4: an export_all_themes_to_config call that directly follows another one
\* writes nothing to the store.
C4_SecondExportAllWritesNothing ==
    (IsExportAll /\ last.prev_op = "export_all_themes_to_config") => last.writes = {}

\* The first of two successive bulk exports wrote, the second has returned.
C4_Witness ==
    /\ IsExportAll /\ last.prev_op = "export_all_themes_to_config"
    /\ last.exc = "none" /\ last.prev_writes # {} /\ last.writes = {}

\* C5: the first access of SpyderPalette with a store that is not ready
\* returns the dark palette of the default theme, when that theme is
\* installed.
C5_NotReadyReturnsDefault ==
    (IsAccess /\ last.first /\ ~conf_ready /\ DefaultInstalled) =>
        /\ last.exc = "none"
        /\ last.palette = PaletteClass(DefaultTheme, "dark")

\* C6: the first access of SpyderPalette with a ready store whose selection
\* names a theme that cannot be imported returns the dark palette of the
\* default theme, when that theme is installed.
SelectedBefore == ConfGetDefault([Now EXCEPT !.conf = last.pre_conf],
                                 SelectedOption, DefaultSelected).value

C6_UnknownSelectionFallsBack ==
    (/\ IsAccess /\ last.first /\ conf_ready
     /\ ImportModule(SelectedBefore[1]) = "ImportError"
     /\ DefaultInstalled) =>
        /\ last.exc = "none"
        /\ last.palette = PaletteClass(DefaultTheme, "dark")

\* 'nonexistent/dark' was selected and the access returned the default palette.
C6_Witness ==
    /\ IsAccess /\ last.first /\ conf_ready
    /\ SelectedBefore = <<Nonexistent, "dark">>
    /\ last.exc = "none"
    /\ last.palette = PaletteClass(DefaultTheme, "dark")

\* C7: the first access of SpyderPalette with a ready store whose selection
\* names an installed variant returns the palette class of that variant.
C7_ReturnsSelectedPalette ==
    (/\ IsAccess /\ last.first /\ conf_ready
     /\ HasSlash(SelectedBefore)
     /\ SelectedBefore[1] \in InstalledThemes
     /\ SelectedBefore[2] \in UiModes
     /\ Loads(SelectedBefore[1], SelectedBefore[2])) =>
        /\ last.exc = "none"
        /\ last.palette = PaletteClass(SelectedBefore[1], SelectedBefore[2])

\* C8: an access of SpyderPalette, the first or a later one, returns a
\* palette class with every editor attribute or raises ImportError; it
\* returns neither None nor a palette that lacks an attribute.
C8_PaletteCompleteOrError ==
    IsAccess =>
        \/ /\ last.exc = "none"
           /\ last.palette # NoPalette
           /\ EditorAttrs \subseteq last.palette.attrs
        \/ /\ last.exc = "ImportError"
           /\ last.palette = NoPalette

\* A later access raises after the selected and the default theme failed.
C8_Witness ==
    /\ IsAccess /\ ~last.first /\ last.prev_op = "SpyderPalette"
    /\ last.exc = "ImportError" /\ theme_palette = NoPalette

\* C9: the first access of SpyderPalette with a ready store leaves every
\* colour key of the selected variant that held a value with that value.
C9_ResolutionKeepsSelectedKeys ==
    (IsAccess /\ last.first /\ conf_ready /\ HasSlash(SelectedBefore)) =>
        \A k \in SchemeKeys :
            LET option == OptionName(SelectedBefore, k)
            IN option \in DOMAIN last.pre_conf =>
                   /\ option \in DOMAIN conf
                   /\ conf[option] = last.pre_conf[option]

\* C10: export_all_themes_to_config on a ready store returns normally, and
\* every variant of a registered theme that loads is then complete in the
\* store.
C10_ExportAllNeverAborts ==
    (IsExportAll /\ conf_ready) =>
        /\ last.exc = "none"
        /\ \A t \in InstalledThemes, m \in UiModes :
               (env[t].registered /\ Loads(t, m)) =>
                   IsComplete(Now, VariantName(t, m))

\* The variants export_all_themes_to_config goes through
RegisteredVariants ==
    {VariantName(t, m) : t \in {x \in InstalledThemes : env[x].registered}, m \in UiModes}

\* The store holds the name and every colour key of a variant.
HasEntry(store, v) ==
    \A k \in SchemeKeys \cup {"name"} : OptionName(v, k) \in DOMAIN store

C12_ExportAllKeepsCustomizations ==
    IsExportAll =>
        \A option \in DOMAIN last.pre_conf :
            option \in DOMAIN conf /\ conf[option] = last.pre_conf[option]

\* C13: export_theme_to_config(v, replace=False) leaves a '<v>/name' entry
\* that was in the store with its value.
C13_FillKeepsDisplayName ==
    (IsExport /\ ~last.replace) =>
        LET option == OptionName(LastVariant, "name")
        IN option \in DOMAIN last.pre_conf =>
               option \in DOMAIN conf /\ conf[option] = last.pre_conf[option]

\* The reload of the theme that was active before the last export fails.
RestoreFails ==
    /\ last.pre_tm.current_theme \notin {None, last.theme}
    /\ LoadThemeInternal(Now, last.pre_tm.current_theme,
                         IF dark_interface THEN "dark" ELSE "light").exc # "none"

\* C14: an export_theme_to_config call on a ready store whose target loads,
\* and whose reload of the previously active theme fails, returns normally
\* with the options it wrote, the name and every colour key of the target,
\* in the store.
C14_RestoreFailureSwallowed ==
    (/\ IsExport /\ conf_ready
     /\ Loads(last.theme, last.mode)
     /\ RestoreFails) =>
        /\ last.exc = "none"
        /\ last.writes \subseteq DOMAIN conf
        /\ OptionName(LastVariant, "name") \in last.writes
        /\ HasEntry(conf, LastVariant)

\* The active theme has no palette or stylesheet for the interface's mode,
\* and the export of another theme returned with its keys written.
C14_Witness ==
    /\ IsExport /\ conf_ready /\ RestoreFails
    /\ last.exc = "none"
    /\ \E k \in SchemeKeys : OptionName(LastVariant, k) \in last.writes
    /\ HasEntry(conf, LastVariant)

\* C15: an export_theme_to_config call whose target fails to load, or whose
\* palette lacks a field the extraction reads, raises and has written no
\* option.
C15_FailedExportWritesNothing ==
    (IsExport /\ ~Loads(last.theme, last.mode)) =>
        /\ last.exc # "none"
        /\ last.writes = {}
        /\ conf = last.pre_conf

\* The export of a variant whose palette lacks a field raised AttributeError.
C15_Witness ==
    /\ IsExport /\ last.exc = "AttributeError"
    /\ last.writes = {} /\ conf = last.pre_conf

\* The theme has a palette class for the mode that lacks an editor field.
IncompletePalette(t, m) ==
    /\ ImportModule(t) = "ok"
    /\ m \in env[t].classes
    /\ ~(EditorAttrs \subseteq PaletteClass(t, m).attrs)

\* C16: a load_theme or export_theme_to_config call for a variant whose
\* palette lacks a required colour field fails, and the loader it went
\* through, _load_theme_internal, raised there and returned no palette.
C16_IncompletePaletteFailsLoad ==
    (/\ last.op \in {"load_theme", "export_theme_to_config"}
     /\ last.theme \in InstalledThemes /\ last.mode \in UiModes
     /\ IncompletePalette(last.theme, last.mode)) =>
        LET loaded == LoadThemeInternal(CallState(last.pre_tm, last.pre_conf, {}),
                                        last.theme, last.mode)
        IN /\ last.exc # "none"
           /\ last.palette = NoPalette
           /\ loaded.exc # "none"
           /\ loaded.palette = NoPalette

\* C18: over the calls on the manager, no style file (stylesheet or
\* resource module) of a variant is read or executed twice: a call executes
\* no resource module the manager already holds, and none twice.
C18_StyleAssetLoadedOnce ==
    (last.op \in {"load_theme", "export_theme_to_config",
                  "export_all_themes_to_config"}) =>
        \A i \in DOMAIN last.loads :
            /\ last.loads[i] \notin last.pre_tm.loaded_resource_modules
            /\ \A j \in DOMAIN last.loads : last.loads[j] = last.loads[i] => j = i

\* The elements of a sequence

\* C17 as stated: get_syntax_color_scheme gives a scheme of exactly 16 keys,
\* one per editor field with the field's value, in the fixed order.
C17_SixteenKeys ==
    (last.op = "get_syntax_color_scheme" /\ last.exc = "none") =>
        /\ Len(last.value) = 16
        /\ \A i \in DOMAIN last.value :
               last.value[i][2] = PaletteValue(last.palette, AttrName(last.value[i][1]))

\* C17 amended: get_syntax_color_scheme gives a scheme of exactly 17 keys,
\* from 'background' to 'magic', no key twice, in the same order for every
\* palette, each with the value of the palette's EDITOR_ field of the key.
C17_SeventeenKeys ==
    (last.op = "get_syntax_color_scheme" /\ last.exc = "none") =>
        /\ Len(last.value) = 17
        /\ last.value[1][1] = "background"
        /\ last.value[17][1] = "magic"
        /\ \A i, j \in DOMAIN last.value :
               last.value[i][1] = last.value[j][1] => i = j
        /\ [i \in DOMAIN last.value |-> last.value[i][1]] = SchemeKeySeq
        /\ {AttrName(last.value[i][1]) : i \in DOMAIN last.value} = EditorAttrs
        /\ \A i \in DOMAIN last.value :
               last.value[i][2] = PaletteValue(last.palette, AttrName(last.value[i][1]))

\* The scheme of solarized's dark palette carries '#002B36' as background.
C17_Witness ==
    /\ last.op = "get_syntax_color_scheme" /\ last.exc = "none"
    /\ last.theme = Solarized /\ last.mode = "dark"
    /\ last.value[1] = <<"background", <<"#002B36">> >>
    /\ Len(last.value) = 17

WellFormed(t) ==
    /\ env[t].registered /\ env[t].get_module = "ok"
    /\ env[t].theme_id /\ env[t].classes # {}

\* C20: get_available_themes returns, whatever one registered theme is
\* like, and lists every well-formed registered theme and no other.
C20_DiscoveryNeverRaises ==
    (last.op = "get_available_themes") =>
        /\ last.exc = "none"
        /\ Range(last.value) = {t \in InstalledThemes : WellFormed(t)}

\* C21: every variant get_available_theme_variants lists names a mode whose
\* palette class the theme has, so _load_theme_internal finds the class of
\* every listed variant.
C21_ListedModesSupported ==
    (last.op = "get_available_theme_variants" /\ last.exc = "none") =>
        \A i \in DOMAIN last.value :
            last.value[i][2] \in env[last.value[i][1]].classes

\* C28: every option a load_theme call writes is under the variant of the
\* palette it loaded: '<theme>/dark' for SpyderPaletteDark, '<theme>/light'
\* for SpyderPaletteLight, also when ui_mode is None.
C28_LoadThemeWritesUnderLoadedVariant ==
    (last.op = "load_theme" /\ last.exc = "none") =>
        \A option \in last.writes :
            /\ option[1] = last.theme
            /\ option[2] \in UiModes
            /\ ClassOfMode(option[2]) = last.palette.cls

\* C29: a load_theme call that raises leaves the manager's current theme,
\* palette and stylesheet as they were before the call.
C29_FailedLoadKeepsCurrent ==
    (last.op = "load_theme" /\ last.exc # "none") =>
        /\ tm.current_theme = last.pre_tm.current_theme
        /\ tm.current_palette = last.pre_tm.current_palette
        /\ tm.current_stylesheet = last.pre_tm.current_stylesheet

\* C24: an access of SpyderPalette after the first one loads no theme,
\* reads no selection and calls no CONF.set; the manager and the store stay
\* as they are and the palette is the one the first access left, whatever
\* 'selected' holds by then.
C24_ResolutionRunsOnce ==
    (IsAccess /\ ~last.first) =>
        /\ last.loads = <<>> /\ last.reads = {} /\ last.set_calls = {}
        /\ tm = last.pre_tm /\ conf = last.pre_conf
        /\ last.palette = theme_palette
        /\ (last.exc = "none") = (theme_palette # NoPalette)

\* The first access resolved a palette, 'selected' was then set to another
\* value, and a later access returned the palette again.
C24_Witness ==
    /\ IsAccess /\ ~last.first /\ last.prev_op = "set_selected"
    /\ last.exc = "none" /\ last.palette = theme_palette
    /\ theme_palette # NoPalette

\* C25: the first access of SpyderPalette with a store that is not ready
\* reads nothing from the store and calls no CONF.set.
C25_NotReadyNoStoreAccess ==
    (IsAccess /\ last.first /\ ~conf_ready) =>
        last.reads = {} /\ last.set_calls = {}

\* C22: after on_initialize has run with a registry that answers, 'names'
\* is the sorted list of the variants the registry returns, whatever it was
\* before and also when there is no variant.
C22_NamesIsVariantList ==
    (last.op = "on_initialize" /\ get_available_theme_variants.exc = "none") =>
        /\ last.exc = "none"
        /\ conf[NamesOption] = get_available_theme_variants.variants

\* C23: a reset_to_default or delete_scheme that hits an error, raised or
\* caught, leaves the store as it was before the operation.
C23_FailedResetOrDeleteKeepsStore ==
    (/\ last.op \in {"reset_to_default", "delete_scheme"}
     /\ (last.exc # "none" \/ last.value[1] # None)) =>
        conf = last.pre_conf

\* C27: the name create_new_scheme generates is not in custom_names yet, and
\* custom_names never holds a name twice.
C27_CustomNamesNeverRepeat ==
    page.shown =>
        /\ \A i, j \in DOMAIN conf[CustomNamesOption] :
               conf[CustomNamesOption][i] = conf[CustomNamesOption][j] => i = j
        /\ last.op = "create_new_scheme" =>
               <<last.value[2]>> \notin Range(last.pre_conf[CustomNamesOption])

\* C30: on the page, scheme_choices_dict maps the text of every listed item
\* to the data of that item, and current_scheme is the data of the current
\* item.
C30_DictionaryResolvesEveryItem ==
    page.shown =>
        /\ \A i \in DOMAIN page.items :
               page.items[i] # Separator =>
                   /\ page.items[i].text \in DOMAIN page.scheme_choices_dict
                   /\ page.scheme_choices_dict[page.items[i].text] = page.items[i].data
        /\ current_scheme(page).exc = "none"
        /\ page.index \in 0..(Len(page.items) - 1)
        /\ current_scheme(page).value = page.items[page.index + 1].data

====
